---- MODULE Spec2Model ----
(***************************************************************************)
(* A model of sqlx-prepare.py, the script that regenerates the .sqlx       *)
(* offline query cache: cargo clean, makedirs(target), rmtree(target/sqlx),*)
(* rmtree(.sqlx), mkdir(target/sqlx), two os.environ assignments, cargo    *)
(* check --workspace, copytree(target/sqlx, .sqlx).                        *)
(*                                                                         *)
(* The state is the part of the filesystem the script touches, the         *)
(* environment of the script's process and of the process that launched    *)
(* it, and the script's position.  The library calls are operators that    *)
(* compute what the Python call does with the arguments the script gives   *)
(* it; the cargo subprocesses and I/O errors are nondeterministic.         *)
(***************************************************************************)
EXTENDS Naturals, FiniteSets, TLC

\* ------------------------------------------------------------ constants

TARGET_DIR == "target"
SQLX_BUILD_DIR == "target/sqlx"
SQLX_PREPARE_DIR == ".sqlx"

\* ------------------------------------------------------------ bounds

\* How many times in succession the script is run.
MaxRuns == 2
\* How many different file contents there are.
NumContents == 2

\* ------------------------------------------------------------ filesystem

\* Relative paths of the files a cache directory may hold: one directly in
\* the directory and one in a subdirectory of it.
Paths == {"query-1.json", "sub/query-2.json"}
Nested(p) == p = "sub/query-2.json"

NoFile == 0
Contents == 1..NumContents

\* The files of a directory: the content at each relative path, or NoFile.
Tree == [Paths -> {NoFile} \cup Contents]
EmptyTree == [p \in Paths |-> NoFile]

\* What is at a path: nothing, something that is no directory (a regular
\* file, a symbolic link), or a directory with its files.
Absent == [kind |-> "absent", files |-> EmptyTree]
NonDir == [kind |-> "file", files |-> EmptyTree]
Dir(t) == [kind |-> "dir", files |-> t]
Nodes == {Absent, NonDir} \cup {Dir(t) : t \in Tree}

\* The trees that hold some of the files of t and nothing else.
SubTrees(t) == {s \in Tree : \A p \in Paths : s[p] \in {NoFile, t[p]}}
FilesOf(t) == {p \in Paths : t[p] # NoFile}

\* ------------------------------------------------------------ environment

Unset == "unset"
\* The environments the script is started with: the two variables not set,
\* set to other values, or set to the very values the script assigns.
LauncherEnvs ==
    { [SQLX_OFFLINE |-> Unset, SQLX_OFFLINE_DIR |-> Unset],
      [SQLX_OFFLINE |-> "true", SQLX_OFFLINE_DIR |-> SQLX_PREPARE_DIR],
      [SQLX_OFFLINE |-> "false", SQLX_OFFLINE_DIR |-> SQLX_BUILD_DIR] }
NotSpawned == [SQLX_OFFLINE |-> "notspawned", SQLX_OFFLINE_DIR |-> "notspawned"]

VARIABLES
    pc,               \* the statement the script is at, or "done"
    exc,              \* the uncaught exception that ended the script, or "none"
    targetDir,        \* target: whether it exists, and an unrelated file in it
    buildDir,         \* target/sqlx
    prepareDir,       \* .sqlx
    environ,          \* os.environ of the script's process
    launcherEnviron,  \* the environment of the process that started the script
    checkEnviron,     \* the environment cargo check was spawned with
    cleanRc,          \* how the cargo clean invocation ended
    checkRc,          \* how the cargo check invocation ended
    faults,           \* the filesystem statements that could not do their work
    written,          \* the files cargo check wrote into target/sqlx, this run
    checked,          \* target/sqlx as it was when cargo check returned
    prepareBefore,    \* .sqlx as it was when this run started
    prevWritten,      \* the files cargo check wrote in the previous run
    run               \* the number of this run

vars == <<pc, exc, targetDir, buildDir, prepareDir, environ, launcherEnviron,
          checkEnviron, cleanRc, checkRc, faults, written, checked,
          prepareBefore, prevWritten, run>>

Running == exc = "none" /\ pc # "done"
\* The exit status of the script's process: 0 when the module body ran to
\* its end, 1 when an exception went uncaught.
ExitStatus == IF exc # "none" THEN 1 ELSE IF pc = "done" THEN 0 ELSE 255

Init ==
    /\ pc = "clean"
    /\ exc = "none"
    /\ \E e \in BOOLEAN, u \in {NoFile} \cup Contents :
          targetDir = [exists |-> e, unrelated |-> IF e THEN u ELSE NoFile]
    /\ buildDir \in Nodes
    /\ targetDir.exists \/ buildDir = Absent
    /\ prepareDir \in Nodes
    /\ launcherEnviron \in LauncherEnvs
    /\ environ = launcherEnviron
    /\ checkEnviron = NotSpawned
    /\ cleanRc = "notrun"
    /\ checkRc = "notrun"
    /\ faults = {}
    /\ written = EmptyTree
    /\ checked = Absent
    /\ prepareBefore = prepareDir
    /\ prevWritten = EmptyTree
    /\ run = 1

\* ------------------------------------------------------------ library calls

\* How an invocation of cargo ends: the program could not be started, it
\* exited with 0, it exited with a non-zero status.
Outcomes == {"nospawn", "rc0", "rc101"}

\* subprocess.run with check=True: a non-zero exit status raises too.
SubprocessRunChecked(outcome) ==
    IF outcome = "nospawn" THEN "FileNotFoundError"
    ELSE IF outcome = "rc0" THEN "none"
    ELSE "CalledProcessError"

\* subprocess.run(args) with check left at its default: the exception it
\* raises.  Only a program that cannot be started raises; the exit status
\* is returned in a CompletedProcess the script drops.
SubprocessRun(outcome) ==
    IF outcome = "nospawn" THEN "FileNotFoundError" ELSE "none"

\* os.makedirs(path, exist_ok=True).  fault: the call could not do its work.
Makedirs(t, io) ==
    IF io THEN [exc |-> "PermissionError", dir |-> t, fault |-> TRUE]
    ELSE IF t.exists THEN [exc |-> "none", dir |-> t, fault |-> FALSE]
    ELSE [exc |-> "none", dir |-> [exists |-> TRUE, unrelated |-> NoFile],
          fault |-> FALSE]

\* The error shutil.rmtree meets at a path, and what it leaves there: left
\* is what an interrupted removal leaves of a directory's files.
RmtreeError(node, io) ==
    IF node.kind = "absent" THEN "FileNotFoundError"
    ELSE IF node.kind = "file" THEN "NotADirectoryError"
    ELSE IF io THEN "PermissionError"
    ELSE "none"
RmtreeLeaves(node, io, left) ==
    IF node.kind = "dir" THEN (IF io THEN Dir(left) ELSE Absent) ELSE node

\* rmtree called without ignore_errors: every error is raised.
RmtreeStrict(node, io, left, ignore_errors) ==
    [ exc   |-> RmtreeError(node, io),
      node  |-> RmtreeLeaves(node, io, left),
      fault |-> RmtreeError(node, io) \notin {"none", "FileNotFoundError"} ]

\* A removal that empties the directory and leaves it in place.
RmtreeContentsOnly(node, io, left, ignore_errors) ==
    [ exc   |-> IF ignore_errors THEN "none" ELSE RmtreeError(node, io),
      node  |-> IF node.kind = "dir"
                THEN Dir(IF io THEN left ELSE EmptyTree) ELSE node,
      fault |-> RmtreeError(node, io) \notin {"none", "FileNotFoundError"} ]

\* shutil.rmtree(path, ignore_errors): with ignore_errors every error is
\* swallowed, and what could not be removed stays.  A path that is absent
\* is no fault: there was nothing to remove.
Rmtree(node, io, left, ignore_errors) ==
    [ exc   |-> IF ignore_errors THEN "none" ELSE RmtreeError(node, io),
      node  |-> RmtreeLeaves(node, io, left),
      fault |-> RmtreeError(node, io) \notin {"none", "FileNotFoundError"} ]

MkdirError(node, parentExists, io) ==
    IF ~parentExists THEN "FileNotFoundError"
    ELSE IF node.kind # "absent" THEN "FileExistsError"
    ELSE IF io THEN "PermissionError"
    ELSE "none"

\* A mkdir whose errors are caught and dropped.
MkdirSwallow(node, parentExists, io) ==
    [ exc   |-> "none",
      node  |-> IF MkdirError(node, parentExists, io) = "none"
                THEN Dir(EmptyTree) ELSE node,
      fault |-> MkdirError(node, parentExists, io) # "none" ]

\* os.mkdir(path)
Mkdir(node, parentExists, io) ==
    [ exc   |-> MkdirError(node, parentExists, io),
      node  |-> IF MkdirError(node, parentExists, io) = "none"
                THEN Dir(EmptyTree) ELSE node,
      fault |-> MkdirError(node, parentExists, io) # "none" ]

CopytreeError(src, dst, io, failing) ==
    IF src.kind = "absent" THEN "FileNotFoundError"
    ELSE IF src.kind = "file" THEN "NotADirectoryError"
    ELSE IF dst.kind # "absent" THEN "FileExistsError"
    ELSE IF io THEN "PermissionError"
    ELSE IF failing \cap FilesOf(src.files) # {} THEN "shutil.Error"
    ELSE "none"

\* A copy of the top level only: the files of subdirectories are left out.
CopytreeShallow(src, dst, io, failing) ==
    [ exc   |-> CopytreeError(src, dst, io, failing),
      dst   |-> IF CopytreeError(src, dst, io, failing) \in {"none", "shutil.Error"}
                THEN Dir([p \in Paths |->
                          IF p \in failing \/ Nested(p) THEN NoFile
                          ELSE src.files[p]])
                ELSE dst,
      fault |-> CopytreeError(src, dst, io, failing) # "none" ]

\* copytree with dirs_exist_ok=True: an existing destination directory is
\* copied into, and keeps the files the source does not have.
CopytreeDirsExistOk(src, dst, io, failing) ==
    LET err == IF dst.kind = "dir"
               THEN CopytreeError(src, Absent, io, failing)
               ELSE CopytreeError(src, dst, io, failing)
    IN  [ exc   |-> err,
          dst   |-> IF err \in {"none", "shutil.Error"}
                    THEN Dir([p \in Paths |->
                              IF p \in failing \/ src.files[p] = NoFile
                              THEN dst.files[p] ELSE src.files[p]])
                    ELSE dst,
          fault |-> err # "none" ]

\* A copy that creates the destination before it lists the source.
CopytreeMakeDstFirst(src, dst, io, failing) ==
    [ exc   |-> CopytreeError(src, dst, io, failing),
      dst   |-> IF CopytreeError(src, dst, io, failing) \in {"none", "shutil.Error"}
                THEN Dir([p \in Paths |->
                          IF p \in failing THEN NoFile ELSE src.files[p]])
                ELSE IF dst.kind = "absent" /\ ~io THEN Dir(EmptyTree)
                ELSE dst,
      fault |-> CopytreeError(src, dst, io, failing) # "none" ]

\* shutil.copytree(src, dst): the source is listed, the destination is
\* created (it must not exist), every file is copied; the files whose copy
\* fails (failing) are collected and shutil.Error is raised at the end,
\* when the destination holds the files that could be copied.
Copytree(src, dst, io, failing) ==
    [ exc   |-> CopytreeError(src, dst, io, failing),
      dst   |-> IF CopytreeError(src, dst, io, failing) \in {"none", "shutil.Error"}
                THEN Dir([p \in Paths |->
                          IF p \in failing THEN NoFile ELSE src.files[p]])
                ELSE dst,
      fault |-> CopytreeError(src, dst, io, failing) # "none" ]

\* ------------------------------------------------------------ the script

\* subprocess.run(["cargo", "clean"]): a clean that succeeds removes the
\* whole target directory; one that fails removes nothing.
CargoClean ==
    /\ Running /\ pc = "clean"
    /\ \E outcome \in Outcomes :
          /\ cleanRc' = outcome
          /\ exc' = SubprocessRun(outcome)
          /\ pc' = IF exc' = "none" THEN "makedirs" ELSE pc
          /\ IF outcome = "rc0"
             THEN /\ targetDir' = [exists |-> FALSE, unrelated |-> NoFile]
                  /\ buildDir' = Absent
             ELSE UNCHANGED <<targetDir, buildDir>>
    /\ UNCHANGED <<prepareDir, environ, launcherEnviron, checkEnviron, checkRc,
                   faults, written, checked, prepareBefore, prevWritten, run>>

\* os.makedirs(TARGET_DIR, exist_ok=True)
MakedirsTarget ==
    /\ Running /\ pc = "makedirs"
    /\ \E io \in BOOLEAN :
          LET r == Makedirs(targetDir, io) IN
          /\ exc' = r.exc
          /\ targetDir' = r.dir
          /\ pc' = IF r.exc = "none" THEN "rmtree_build" ELSE pc
          /\ faults' = IF r.fault THEN faults \cup {pc} ELSE faults
    /\ UNCHANGED <<buildDir, prepareDir, environ, launcherEnviron, checkEnviron,
                   cleanRc, checkRc, written, checked, prepareBefore,
                   prevWritten, run>>

\* The removal given TARGET_DIR instead of SQLX_BUILD_DIR.
RmtreeTarget ==
    /\ Running /\ pc = "rmtree_build"
    /\ targetDir' = [exists |-> FALSE, unrelated |-> NoFile]
    /\ buildDir' = Absent
    /\ pc' = "rmtree_prepare"
    /\ UNCHANGED <<exc, prepareDir, environ, launcherEnviron, checkEnviron,
                   cleanRc, checkRc, faults, written, checked, prepareBefore,
                   prevWritten, run>>

\* shutil.rmtree(SQLX_BUILD_DIR, ignore_errors=True)
RmtreeBuild ==
    /\ Running /\ pc = "rmtree_build"
    /\ \E io \in BOOLEAN :
       \E left \in IF io /\ buildDir.kind = "dir"
                   THEN SubTrees(buildDir.files) ELSE {EmptyTree} :
          LET r == Rmtree(buildDir, io /\ buildDir.kind = "dir", left, TRUE) IN
          /\ exc' = r.exc
          /\ buildDir' = r.node
          /\ pc' = IF r.exc = "none" THEN "rmtree_prepare" ELSE pc
          /\ faults' = IF r.fault THEN faults \cup {pc} ELSE faults
    /\ UNCHANGED <<targetDir, prepareDir, environ, launcherEnviron,
                   checkEnviron, cleanRc, checkRc, written, checked,
                   prepareBefore, prevWritten, run>>

\* shutil.rmtree(SQLX_PREPARE_DIR, ignore_errors=True)
RmtreePrepare ==
    /\ Running /\ pc = "rmtree_prepare"
    /\ \E io \in BOOLEAN :
       \E left \in IF io /\ prepareDir.kind = "dir"
                   THEN SubTrees(prepareDir.files) ELSE {EmptyTree} :
          LET r == Rmtree(prepareDir, io /\ prepareDir.kind = "dir", left, TRUE) IN
          /\ exc' = r.exc
          /\ prepareDir' = r.node
          /\ pc' = IF r.exc = "none" THEN "mkdir" ELSE pc
          /\ faults' = IF r.fault THEN faults \cup {pc} ELSE faults
    /\ UNCHANGED <<targetDir, buildDir, environ, launcherEnviron, checkEnviron,
                   cleanRc, checkRc, written, checked, prepareBefore,
                   prevWritten, run>>

\* os.mkdir(SQLX_BUILD_DIR)
MkdirBuild ==
    /\ Running /\ pc = "mkdir"
    /\ \E io \in BOOLEAN :
          LET r == Mkdir(buildDir, targetDir.exists, io) IN
          /\ exc' = r.exc
          /\ buildDir' = r.node
          /\ pc' = IF r.exc = "none" THEN "environ_offline" ELSE pc
          /\ faults' = IF r.fault THEN faults \cup {pc} ELSE faults
    /\ UNCHANGED <<targetDir, prepareDir, environ, launcherEnviron,
                   checkEnviron, cleanRc, checkRc, written, checked,
                   prepareBefore, prevWritten, run>>

\* The assignment with the value "true".
SetOfflineTrue ==
    /\ Running /\ pc = "environ_offline"
    /\ environ' = [environ EXCEPT !.SQLX_OFFLINE = "true"]
    /\ pc' = "environ_dir"
    /\ UNCHANGED <<exc, targetDir, buildDir, prepareDir, launcherEnviron,
                   checkEnviron, cleanRc, checkRc, faults, written, checked,
                   prepareBefore, prevWritten, run>>

\* os.environ["SQLX_OFFLINE"] = "false"
SetOffline ==
    /\ Running /\ pc = "environ_offline"
    /\ environ' = [environ EXCEPT !.SQLX_OFFLINE = "false"]
    /\ pc' = "environ_dir"
    /\ UNCHANGED <<exc, targetDir, buildDir, prepareDir, launcherEnviron,
                   checkEnviron, cleanRc, checkRc, faults, written, checked,
                   prepareBefore, prevWritten, run>>

\* The assignment with SQLX_PREPARE_DIR instead of SQLX_BUILD_DIR.
SetOfflineDirPrepare ==
    /\ Running /\ pc = "environ_dir"
    /\ environ' = [environ EXCEPT !.SQLX_OFFLINE_DIR = SQLX_PREPARE_DIR]
    /\ pc' = "check"
    /\ UNCHANGED <<exc, targetDir, buildDir, prepareDir, launcherEnviron,
                   checkEnviron, cleanRc, checkRc, faults, written, checked,
                   prepareBefore, prevWritten, run>>

\* os.environ["SQLX_OFFLINE_DIR"] = SQLX_BUILD_DIR
SetOfflineDir ==
    /\ Running /\ pc = "environ_dir"
    /\ environ' = [environ EXCEPT !.SQLX_OFFLINE_DIR = SQLX_BUILD_DIR]
    /\ pc' = "check"
    /\ UNCHANGED <<exc, targetDir, buildDir, prepareDir, launcherEnviron,
                   checkEnviron, cleanRc, checkRc, faults, written, checked,
                   prepareBefore, prevWritten, run>>

\* subprocess.run(["cargo", "check", "--workspace"]): the child inherits
\* os.environ.  With SQLX_OFFLINE "false" it writes query files (any, w)
\* into the directory SQLX_OFFLINE_DIR names, whatever its exit status; it
\* may also leave no directory there at all (gone).
CargoCheck ==
    /\ Running /\ pc = "check"
    /\ \E outcome \in Outcomes :
       LET writes == /\ outcome # "nospawn"
                     /\ environ.SQLX_OFFLINE = "false"
                     /\ environ.SQLX_OFFLINE_DIR = SQLX_BUILD_DIR
                     /\ buildDir.kind = "dir"
       IN
       \E w \in IF writes THEN Tree ELSE {EmptyTree} :
       \E gone \in IF outcome # "nospawn" /\ w = EmptyTree
                   THEN BOOLEAN ELSE {FALSE} :
          /\ checkRc' = outcome
          /\ exc' = SubprocessRun(outcome)
          /\ pc' = IF exc' = "none" THEN "copytree" ELSE pc
          /\ checkEnviron' = IF outcome = "nospawn" THEN NotSpawned ELSE environ
          /\ written' = w
          /\ buildDir' =
                IF gone THEN Absent
                ELSE IF writes
                     THEN Dir([p \in Paths |-> IF w[p] # NoFile THEN w[p]
                                               ELSE buildDir.files[p]])
                     ELSE buildDir
          /\ checked' = buildDir'
    /\ UNCHANGED <<targetDir, prepareDir, environ, launcherEnviron, cleanRc,
                   faults, prepareBefore, prevWritten, run>>

\* shutil.copytree(SQLX_BUILD_DIR, SQLX_PREPARE_DIR)
CopytreePrepare ==
    /\ Running /\ pc = "copytree"
    /\ \E io \in BOOLEAN :
       \E failing \in IF io THEN {{}} ELSE SUBSET FilesOf(buildDir.files) :
          LET r == Copytree(buildDir, prepareDir, io, failing) IN
          /\ exc' = r.exc
          /\ prepareDir' = r.dst
          /\ pc' = IF r.exc = "none" THEN "done" ELSE pc
          /\ faults' = IF r.fault THEN faults \cup {pc} ELSE faults
    /\ UNCHANGED <<targetDir, buildDir, environ, launcherEnviron, checkEnviron,
                   cleanRc, checkRc, written, checked, prepareBefore,
                   prevWritten, run>>

\* The script is started again after a run that completed: a new process,
\* which inherits the launcher's environment and finds the filesystem as
\* the previous run left it.
Rerun ==
    /\ exc = "none" /\ pc = "done"
    /\ run < MaxRuns
    /\ run' = run + 1
    /\ pc' = "clean"
    /\ environ' = launcherEnviron
    /\ checkEnviron' = NotSpawned
    /\ cleanRc' = "notrun"
    /\ checkRc' = "notrun"
    /\ faults' = {}
    /\ prevWritten' = written
    /\ written' = EmptyTree
    /\ checked' = Absent
    /\ prepareBefore' = prepareDir
    /\ UNCHANGED <<exc, targetDir, buildDir, prepareDir, launcherEnviron>>

Next ==
    \/ CargoClean
    \/ MakedirsTarget
    \/ RmtreeBuild
    \/ RmtreePrepare
    \/ MkdirBuild
    \/ SetOffline
    \/ SetOfflineDir
    \/ CargoCheck
    \/ CopytreePrepare
    \/ Rerun

Spec == Init /\ [][Next]_vars

TypeOK ==
    /\ pc \in {"clean", "makedirs", "rmtree_build", "rmtree_prepare", "mkdir",
               "environ_offline", "environ_dir", "check", "copytree", "done"}
    /\ buildDir \in Nodes
    /\ prepareDir \in Nodes
    /\ run \in 1..MaxRuns

\* ------------------------------------------------------------ properties

FsSteps == {"makedirs", "rmtree_build", "rmtree_prepare", "mkdir", "copytree"}
RmtreeSteps == {"rmtree_build", "rmtree_prepare"}
\* The statements between the removal of .sqlx and the end of the copy.
AfterRemoval == {"mkdir", "environ_offline", "environ_dir", "check", "copytree"}
ScriptEnviron == [SQLX_OFFLINE |-> "false", SQLX_OFFLINE_DIR |-> SQLX_BUILD_DIR]
Spawned(rc) == rc \in {"rc0", "rc101"}

\* C1: when a run has completed, target/sqlx and .sqlx are both directories,
\* target/sqlx is as cargo check left it, and .sqlx holds exactly the files
\* of target/sqlx with the same contents.
C1_ExactCopy ==
    pc = "done" =>
        /\ buildDir.kind = "dir" /\ prepareDir.kind = "dir"
        /\ buildDir = checked
        /\ \A p \in Paths : prepareDir.files[p] = checked.files[p]

\* A run from a state with no .sqlx completed, and both files were copied.
C1_Witness ==
    /\ pc = "done" /\ prepareBefore = Absent
    /\ FilesOf(prepareDir.files) = Paths
    /\ prepareDir.files["query-1.json"] # prepareDir.files["sub/query-2.json"]

\* C2: when a run has completed, no file that was in .sqlx before the run
\* and that cargo check did not write is in .sqlx; when cargo check wrote
\* nothing, .sqlx is an empty directory.
C2_NoStaleFile ==
    pc = "done" =>
        /\ \A p \in Paths :
              prepareBefore.files[p] # NoFile /\ written[p] = NoFile
                  => prepareDir.files[p] = NoFile
        /\ written = EmptyTree => prepareDir = Dir(EmptyTree)

\* A run completed that started with two files in .sqlx and in which cargo
\* check wrote nothing.
C2_Witness ==
    /\ pc = "done" /\ run = 1
    /\ FilesOf(prepareBefore.files) = Paths
    /\ written = EmptyTree

\* C3 as claimed: no step of a run deletes target or changes the unrelated
\* file in it.
C3_TargetNeverDeleted ==
    [][targetDir.exists => targetDir' = targetDir]_vars

\* C3 as amended: target is deleted, with the unrelated file in it, by a
\* cargo clean that succeeds and by nothing else; the statements after it
\* leave an existing target and its unrelated file as they are, and target
\* exists from makedirs on.
C3_OnlyCleanDeletesTarget ==
    /\ [][targetDir.exists /\ targetDir' # targetDir
            => pc = "clean" /\ cleanRc' = "rc0"]_vars
    /\ [](pc \in (RmtreeSteps \cup AfterRemoval \cup {"done"}) => targetDir.exists)

\* A run completed with the unrelated file still in target: cargo clean
\* had failed and the script's own steps left the file alone.
C3_Witness ==
    /\ pc = "done" /\ cleanRc = "rc101"
    /\ targetDir.exists /\ targetDir.unrelated # NoFile

\* C4: the environment cargo check is spawned with has SQLX_OFFLINE "false"
\* and SQLX_OFFLINE_DIR "target/sqlx", whatever the script was started with.
C4_CheckEnviron ==
    Spawned(checkRc) =>
        /\ checkEnviron.SQLX_OFFLINE = "false"
        /\ checkEnviron.SQLX_OFFLINE_DIR = SQLX_BUILD_DIR

\* cargo check ran in a script that was started with other values.
C4_Witness ==
    /\ Spawned(checkRc)
    /\ launcherEnviron.SQLX_OFFLINE = "true"
    /\ launcherEnviron.SQLX_OFFLINE_DIR = SQLX_PREPARE_DIR

\* C5 as claimed: the script's process carries the script's values only
\* while cargo check runs: before the check and once it has returned the
\* two variables are as the script inherited them.
C5_ScopedToCheck ==
    pc \in (FsSteps \cup {"clean", "environ_offline", "done"})
        => environ = launcherEnviron

\* C5 as amended: the variables are as inherited until the assignments, and
\* carry the script's values from the assignments to the end of the process,
\* the copy included; the launcher's environment never changes, and a later
\* run starts from it.
C5_AssignedUntilExit ==
    /\ [](pc \in {"clean", "makedirs", "rmtree_build", "rmtree_prepare",
                  "mkdir", "environ_offline"} => environ = launcherEnviron)
    /\ [](pc = "environ_dir" =>
              /\ environ.SQLX_OFFLINE = "false"
              /\ environ.SQLX_OFFLINE_DIR = launcherEnviron.SQLX_OFFLINE_DIR)
    /\ [](pc \in {"check", "copytree", "done"} => environ = ScriptEnviron)
    /\ [][launcherEnviron' = launcherEnviron]_vars

\* The copy has completed and the process still carries the script's values.
C5_Witness ==
    /\ pc = "done"
    /\ environ = ScriptEnviron
    /\ launcherEnviron.SQLX_OFFLINE = Unset

\* C6 as claimed: whatever the outcome of the two cargo invocations, the
\* script ends with a failure status only when a filesystem step raised.
C6_OnlyFsStepsFail ==
    ExitStatus # 0 /\ ~Running => pc \in FsSteps

\* C6 as amended: the exit status of a cargo invocation never ends the
\* script: once cargo has run, with status 0 or not, the script is past
\* that statement.  The script ends at a cargo invocation only when cargo
\* could not be started, which raises FileNotFoundError.
C6_ExitStatusIgnored ==
    /\ Spawned(cleanRc) => pc # "clean"
    /\ Spawned(checkRc) => pc # "check"
    /\ exc # "none" /\ pc = "clean"
          => cleanRc = "nospawn" /\ exc = "FileNotFoundError"
    /\ exc # "none" /\ pc = "check"
          => checkRc = "nospawn" /\ exc = "FileNotFoundError"
    /\ exc # "none" => pc \in FsSteps \cup {"clean", "check"}

\* A run completed with exit status 0 although both cargo invocations
\* exited with a non-zero status.
C6_Witness ==
    /\ pc = "done" /\ ExitStatus = 0
    /\ cleanRc = "rc101" /\ checkRc = "rc101"

\* C7 as claimed: a filesystem step that could not do its work ends the
\* script at that step.
C7_EveryFsErrorFatal ==
    \A s \in faults : exc # "none" /\ pc = s

\* C7 as amended: makedirs, mkdir and copytree end the script when they
\* cannot do their work; the two rmtree calls never end it, their errors
\* are swallowed and the script goes on.
C7_FatalExceptRmtree ==
    /\ \A s \in faults \ RmtreeSteps : exc # "none" /\ pc = s
    /\ \A s \in faults \cap RmtreeSteps : pc # s
    /\ pc \in RmtreeSteps => exc = "none"

\* The removal of target/sqlx failed, the script went on, and mkdir ended
\* it because the path exists.
C7_Witness ==
    /\ "rmtree_build" \in faults
    /\ pc = "mkdir" /\ exc = "FileExistsError"

\* C8 as claimed: once the removals have run neither directory exists, so
\* mkdir never fails on an existing path and the copy finds no destination.
C8_CleanSlate ==
    /\ Running /\ pc = "mkdir" => buildDir = Absent
    /\ Running /\ pc \in AfterRemoval => prepareDir = Absent
    /\ ~(pc = "mkdir" /\ exc = "FileExistsError")
    /\ ~(pc = "copytree" /\ exc = "FileExistsError")

\* C8 as amended: after a removal that met no error the path does not
\* exist; mkdir fails on an existing path, and the copy on an existing
\* destination, only after a removal whose error was swallowed.  A path
\* that is absent before the removal is no error, and the removals never
\* end the script.
C8_CleanSlateUnlessSwallowed ==
    /\ Running /\ pc = "mkdir" /\ "rmtree_build" \notin faults
          => buildDir = Absent
    /\ Running /\ pc \in AfterRemoval /\ "rmtree_prepare" \notin faults
          => prepareDir = Absent
    /\ pc = "mkdir" /\ exc = "FileExistsError" => "rmtree_build" \in faults
    /\ pc = "copytree" /\ exc = "FileExistsError" => "rmtree_prepare" \in faults
    /\ pc \in RmtreeSteps => exc = "none" /\ pc \notin faults

\* The copy is about to start, .sqlx was a populated directory before the
\* run and is gone, and target/sqlx was created anew.
C8_Witness ==
    /\ Running /\ pc = "copytree"
    /\ faults = {}
    /\ FilesOf(prepareBefore.files) = Paths
    /\ prepareDir = Absent
    /\ buildDir.kind = "dir"

\* C9: a second run in which cargo check writes the files it wrote in the
\* first leaves .sqlx as the first run left it; and a later run is ended
\* only by an I/O error, a cargo that cannot be started or a cargo check
\* that leaves no directory, never by the directories the previous run left.
C9_Idempotent ==
    /\ run >= 2 /\ pc = "done" /\ written = prevWritten
          => prepareDir = prepareBefore
    /\ run >= 2 /\ exc = "FileExistsError" /\ pc = "mkdir"
          => "rmtree_build" \in faults
    /\ run >= 2 /\ exc = "FileExistsError" /\ pc = "copytree"
          => "rmtree_prepare" \in faults
    /\ run >= 2 /\ exc \in {"FileNotFoundError", "NotADirectoryError"}
          => \/ pc = "clean" /\ cleanRc = "nospawn"
             \/ pc = "check" /\ checkRc = "nospawn"
             \/ pc = "copytree" /\ checked = Absent

\* A second run completed, with the same two files written, although cargo
\* clean failed and so target, target/sqlx and .sqlx were all there,
\* populated, when the removals ran.
C9_Witness ==
    /\ run = 2 /\ pc = "done"
    /\ cleanRc = "rc101"
    /\ written = prevWritten
    /\ FilesOf(written) = Paths
    /\ prepareDir = Dir(written)

\* C10 as claimed: a run that ends abnormally at mkdir or at the copy, after
\* a removal of .sqlx that met no error, ends with no .sqlx at all.
C10_NoPrepareDirAfterAbort ==
    exc # "none" /\ pc \in {"mkdir", "copytree"} /\ "rmtree_prepare" \notin faults
        => prepareDir = Absent

\* C10 as amended: after a removal of .sqlx that met no error, .sqlx does
\* not exist until the copy runs; a run that ends abnormally after the
\* removal ends with no .sqlx, except when the copy itself had created the
\* destination and then failed on a file: then .sqlx is left as an
\* incomplete copy of target/sqlx.
C10_NoPrepareDirOrPartialCopy ==
    /\ Running /\ pc \in AfterRemoval /\ "rmtree_prepare" \notin faults
          => prepareDir = Absent
    /\ exc # "none" /\ pc \in AfterRemoval /\ "rmtree_prepare" \notin faults
          => \/ prepareDir = Absent
             \/ /\ pc = "copytree" /\ exc = "shutil.Error"
                /\ prepareDir.kind = "dir"
                /\ prepareDir.files \in SubTrees(buildDir.files)
                /\ prepareDir.files # buildDir.files

\* A run that started with a populated .sqlx ended at the copy because
\* target/sqlx was missing, and there is no .sqlx.
C10_Witness ==
    /\ exc = "FileNotFoundError" /\ pc = "copytree"
    /\ FilesOf(prepareBefore.files) = Paths
    /\ prepareDir = Absent
====
